---- MODULE Spec2Model ----
(***************************************************************************)
(* PermaStore (pstore.cpp): multipart binary files in a global namespace   *)
(* of Antelope 64-bit names.  One "files" singleton and one "nodes" table  *)
(* per file name (the table scope); file creation is gated by the system   *)
(* contract's name-bid table.                                              *)
(*                                                                         *)
(* A name is a uint64_t: twelve 5-bit symbols from the most significant    *)
(* bit down, then one 4-bit symbol in the low four bits.  The model keeps  *)
(* the value as its thirteen symbol groups, written left to right, so the  *)
(* shifts and masks of the code are computed group by group.               *)
(***************************************************************************)
EXTENDS Integers, Sequences, FiniteSets, TLC

\* ------------------------------------------------------------------ bounds
\* Largest value of file.top the model lets a file grow to.
MaxTop == 2
\* Width in bits of file.top.  The code's counter is a uint32_t; the model
\* gives it TopBits bits, so that it wraps at 2^TopBits as the code's wraps
\* at 2^32.
TopBits == 2
TopLimit == 2 ^ TopBits

\* ------------------------------------------------------------------- names


\* Pads a symbol string with '.' (0) on the right, as the name constructor does.
Nm(s) == [i \in 1..13 |-> IF i <= Len(s) THEN s[i] ELSE 0]

\* ""_n, the owner of an immutable file.
EmptyName == Nm(<<>>)

\* Symbol values of the characters used: '.'=0, '1'..'5'=1..5, 'a'..'z'=6..31.
name_a == Nm(<<6>>)
name_b == Nm(<<7>>)
name_ab == Nm(<<6, 7>>)
name_x_a == Nm(<<29, 0, 6>>)
name_dot_a == Nm(<<0, 6>>)
name_x_ab == Nm(<<29, 0, 6, 7>>)
name_full12 == Nm(<<6, 7, 6, 7, 6, 7, 6, 7, 6, 7, 6, 7>>)
name_dot12 == Nm(<<6, 7, 6, 7, 6, 7, 6, 7, 6, 0, 6, 7>>)
name_full13 == Nm(<<6, 7, 6, 7, 6, 7, 6, 7, 6, 7, 6, 7, 6>>)
name_dot13 == Nm(<<6, 7, 6, 7, 6, 7, 6, 7, 6, 7, 6, 0, 6>>)

\* name::length(): index of the last non-zero group, plus one; 0 for value 0.
RECURSIVE length_loop(_, _, _)
length_loop(n, i, l) ==
  IF i >= 13 THEN l
  ELSE length_loop(n, i + 1, IF n[i + 1] # 0 THEN i ELSE l)

length(n) == IF n = EmptyName THEN 0 ELSE length_loop(n, 0, 0) + 1

\* name::suffix(): the symbols after the last dot that is followed by a
\* non-dot symbol; the name itself when there is no such dot.
RECURSIVE suffix_scan(_, _, _, _)
suffix_scan(n, i, tmp, after) ==
  IF i > 12 THEN IF n[13] # 0 THEN tmp ELSE after
  ELSE IF n[i] = 0 THEN suffix_scan(n, i + 1, i, after)
       ELSE suffix_scan(n, i + 1, tmp, tmp)

suffix(n) ==
  LET d == suffix_scan(n, 1, 0, 0)
  IN IF d = 0 THEN n
     ELSE [i \in 1..13 |-> IF i + d <= 13 THEN n[i + d] ELSE 0]

\* filename.value >> 4, as its 5-bit groups from the least significant one.
shr4(n) == [i \in 1..12 |-> n[13 - i]]

\* The loop of create(): fnlen rounds of  visible_dot |= !(tmp & 0x1f); tmp >>= 5.
RECURSIVE dot_loop(_, _, _, _)
dot_loop(tmp, i, fnlen, vd) ==
  IF i >= fnlen THEN vd
  ELSE dot_loop(IF tmp = <<>> THEN tmp ELSE Tail(tmp), i + 1, fnlen,
                vd \/ (IF tmp = <<>> THEN 0 ELSE Head(tmp)) = 0)

visible_dot(filename) == dot_loop(shr4(filename), 0, length(filename), FALSE)

\* ------------------------------------------------------------------- state
\* Accounts that exist on the chain and can sign a transaction.
Accounts == {name_a, name_b}
\* Values passed as the `owner` argument of an action: the signing accounts,
\* and in the name-authorization specification also the empty name.
Callers == Accounts
Signers == Accounts \cup {EmptyName}
\* File names (table scopes) used by the life-cycle specification.
FileNames == {name_x_a, name_full12}
\* File names used by the name-authorization specification.
ArbNames == {name_a, name_ab, name_x_a, name_dot_a, name_x_ab, name_full12,
             name_dot12, name_full13, name_dot13}
AllNames == FileNames \cup ArbNames
\* Payloads of setnode: vector<unsigned char>, the empty vector included.
NodeData == {<<>>, <<1>>, <<2>>}
NodeIds == 0..MaxTop

\* visible_dot and suffix() of every name in use, computed once.
VisibleDot == [n \in AllNames |-> visible_dot(n)]
Suffix == [n \in AllNames |-> suffix(n)]

NoFile == [absent |-> TRUE]
NoBid == [absent |-> TRUE]

VARIABLES files, nodes, bids, last
vars == <<files, nodes, bids, last>>

\* Outcomes of a call: success, or the message of the failed check.
OK == "ok"
MissingAuth == "missing authority"
AlreadyExists == "File exists."
SuffixNotSold == "suffix not sold"
SuffixNotOwned == "suffix not owned"
OnlySuffix == "only suffix may create this filename"
NamespaceNotAuthorized == {SuffixNotSold, SuffixNotOwned, OnlySuffix}
NotFound == "File does not exist."
NotOwner == "Not file owner."
NotPublished == "File not published."
EmptyChunk == "Empty nodedata."
IndexPastTop == "Past top."
EmptyObject == "Empty file."
EraseEnd == "cannot pass end iterator to erase"

\* require_auth: only an existing account can authorize an action.
has_auth(owner) == owner \in Accounts

\* The outcome of a call: the message of the check that failed (OK if none)
\* and the tables it leaves.  A failed check aborts the transaction, so the
\* tables are those the call started from.
Fail(msg) == [err |-> msg, files |-> files, nodes |-> nodes]
Pass(fls, nds) == [err |-> OK, files |-> fls, nodes |-> nds]

\* The step that runs a call: its outcome becomes the state.
Commit(op, r) ==
  /\ files' = r.files
  /\ nodes' = r.nodes
  /\ last' = [op |-> op, err |-> r.err]
  /\ UNCHANGED bids

\* multi_index::find: the row with the key, NoBid for the end iterator.
find(table, key) == IF key \in DOMAIN table THEN table[key] ELSE NoBid

\* Variant without the "suffix not sold" check.
name_check_unsold(owner, filename) ==
  IF VisibleDot[filename]
  THEN LET current == find(bids, Suffix[filename])
       IN IF current # NoBid
          THEN IF current.high_bidder # owner THEN SuffixNotOwned ELSE OK
          ELSE IF owner # Suffix[filename] THEN OnlySuffix ELSE OK
  ELSE OK

\* The filename authorization check of create(); OK when it passes.
name_check(owner, filename) ==
  IF VisibleDot[filename]
  THEN LET current == find(bids, Suffix[filename])
       IN IF current # NoBid
          THEN IF ~(current.high_bid < 0) THEN SuffixNotSold
               ELSE IF current.high_bidder # owner THEN SuffixNotOwned
               ELSE OK
          ELSE IF owner # Suffix[filename] THEN OnlySuffix ELSE OK
  ELSE OK

\* The record create() emplaces.
new_file(owner) == [owner |-> owner, top |-> 0, published |-> FALSE]

\* Variant without the "File exists." check.
create_over_existing(owner, filename) ==
  IF ~has_auth(owner) THEN Fail(MissingAuth)
  ELSE IF name_check(owner, filename) # OK
       THEN Fail(name_check(owner, filename))
  ELSE Pass([files EXCEPT ![filename] = new_file(owner)], nodes)

create_call(owner, filename) ==
  IF ~has_auth(owner) THEN Fail(MissingAuth)
  ELSE IF files[filename] # NoFile THEN Fail(AlreadyExists)
  ELSE IF name_check(owner, filename) # OK
       THEN Fail(name_check(owner, filename))
  ELSE Pass([files EXCEPT ![filename] = new_file(owner)], nodes)

create(owner, filename) == Commit("create", create_call(owner, filename))

\* clear_nodes: erases every record of the file's node table.
EmptyTable == [id \in {} |-> <<>>]

\* Variant that opens the node tables of every scope.
clear_nodes_all(filename) == [n \in DOMAIN nodes |-> EmptyTable]

\* Variant whose loop erases nothing.
clear_nodes_none(filename) == nodes

clear_nodes(filename) == [nodes EXCEPT ![filename] = EmptyTable]

\* Variant without the "Not file owner." check.
auth_and_find_file_no_owner(owner, filename) ==
  IF ~has_auth(owner) THEN MissingAuth
  ELSE IF files[filename] = NoFile THEN NotFound
  ELSE OK

\* auth_and_find_file: OK when the file exists and `owner` owns it.
\* Variant that makes the owner check cover a missing file.
auth_and_find_file_owner_first(owner, filename) ==
  IF ~has_auth(owner) THEN MissingAuth
  ELSE IF files[filename] = NoFile \/ files[filename].owner # owner
       THEN NotOwner
  ELSE OK

auth_and_find_file(owner, filename) ==
  IF ~has_auth(owner) THEN MissingAuth
  ELSE IF files[filename] = NoFile THEN NotFound
  ELSE IF files[filename].owner # owner THEN NotOwner
  ELSE OK

\* Variant that leaves the published flag as it is.
reset_keeps_published(owner, filename) ==
  IF auth_and_find_file(owner, filename) # OK
  THEN Fail(auth_and_find_file(owner, filename))
  ELSE Pass([files EXCEPT ![filename].top = 0], clear_nodes(filename))

reset_call(owner, filename) ==
  IF auth_and_find_file(owner, filename) # OK
  THEN Fail(auth_and_find_file(owner, filename))
  ELSE Pass([files EXCEPT ![filename].top = 0, ![filename].published = FALSE],
            clear_nodes(filename))

reset(owner, filename) == Commit("reset", reset_call(owner, filename))

del_call(owner, filename) ==
  IF auth_and_find_file(owner, filename) # OK
  THEN Fail(auth_and_find_file(owner, filename))
  ELSE Pass([files EXCEPT ![filename] = NoFile], clear_nodes(filename))

del(owner, filename) == Commit("del", del_call(owner, filename))

\* Variant that publishes whatever the flag says.
setpub_always(owner, filename, ispub) ==
  IF auth_and_find_file(owner, filename) # OK
  THEN Fail(auth_and_find_file(owner, filename))
  ELSE Pass([files EXCEPT ![filename].published = TRUE], nodes)

setpub_call(owner, filename, ispub) ==
  IF auth_and_find_file(owner, filename) # OK
  THEN Fail(auth_and_find_file(owner, filename))
  ELSE Pass([files EXCEPT ![filename].published = ispub], nodes)

setpub(owner, filename, ispub) ==
  Commit("setpub", setpub_call(owner, filename, ispub))

\* Variant without the "File not published." check.
setimmutable_unpublished(owner, filename) ==
  IF auth_and_find_file(owner, filename) # OK
  THEN Fail(auth_and_find_file(owner, filename))
  ELSE Pass([files EXCEPT ![filename].owner = EmptyName], nodes)

\* Variant that clears the published flag of the file it freezes.
setimmutable_unflags(owner, filename) ==
  IF auth_and_find_file(owner, filename) # OK
  THEN Fail(auth_and_find_file(owner, filename))
  ELSE IF ~files[filename].published THEN Fail(NotPublished)
  ELSE Pass([files EXCEPT ![filename].owner = EmptyName,
                          ![filename].published = FALSE], nodes)

setimmutable_call(owner, filename) ==
  IF auth_and_find_file(owner, filename) # OK
  THEN Fail(auth_and_find_file(owner, filename))
  ELSE IF ~files[filename].published THEN Fail(NotPublished)
  ELSE Pass([files EXCEPT ![filename].owner = EmptyName], nodes)

setimmutable(owner, filename) ==
  Commit("setimmutable", setimmutable_call(owner, filename))

\* Variant that leaves the published flag as it is.
setnode_file_keeps_published(p, nodeid) ==
  [p EXCEPT !.top = IF p.top = nodeid THEN p.top + 1 ELSE p.top]

\* Variant that tests  p.top > nodeid  instead of  p.top == nodeid.
setnode_file_wrong_top(p, nodeid) ==
  [p EXCEPT !.published = FALSE,
            !.top = IF p.top > nodeid THEN p.top + 1 ELSE p.top]

\* The file record after the modify of setnode.
\* ++p.top is computed in the width of the counter.
setnode_file(p, nodeid) ==
  [p EXCEPT !.published = FALSE,
            !.top = IF p.top = nodeid THEN (p.top + 1) % TopLimit ELSE p.top]

\* Variant that emplaces a new node but never modifies an existing one.
setnode_nodes_emplace_only(nds, nodeid, nodedata) ==
  [id \in DOMAIN nds \cup {nodeid} |->
     IF id \in DOMAIN nds THEN nds[id] ELSE nodedata]

\* The node table after the emplace or modify of setnode.
setnode_nodes(nds, nodeid, nodedata) ==
  [id \in DOMAIN nds \cup {nodeid} |-> IF id = nodeid THEN nodedata ELSE nds[id]]

setnode_call(owner, filename, nodeid, nodedata) ==
  IF ~(Len(nodedata) > 0) THEN Fail(EmptyChunk)
  ELSE IF auth_and_find_file(owner, filename) # OK
       THEN Fail(auth_and_find_file(owner, filename))
  ELSE IF ~(nodeid <= files[filename].top) THEN Fail(IndexPastTop)
  ELSE Pass([files EXCEPT ![filename] = setnode_file(@, nodeid)],
            [nodes EXCEPT ![filename] = setnode_nodes(@, nodeid, nodedata)])

\* The model stops a file from growing past MaxTop nodes.
setnode(owner, filename, nodeid, nodedata) ==
  /\ setnode_call(owner, filename, nodeid, nodedata).err = OK => nodeid < MaxTop
  /\ Commit("setnode", setnode_call(owner, filename, nodeid, nodedata))

\* setnode on a file that may grow as far as the counter goes.
setnode_any(owner, filename, nodeid, nodedata) ==
  Commit("setnode", setnode_call(owner, filename, nodeid, nodedata))

\* The file record after the modify of delnode.
delnode_file(p) == [p EXCEPT !.top = p.top - 1, !.published = FALSE]

\* Variant that erases the first node instead of the top one.
delnode_nodes_first(nds, top) == [id \in DOMAIN nds \ {0} |-> nds[id]]

\* The node table after find(top) and erase, top being the decremented top.
delnode_nodes(nds, top) == [id \in DOMAIN nds \ {top} |-> nds[id]]

\* Variant that reports "Empty file." after the modify and returns instead of
\* failing a check, so the modify stays.
delnode_late_report(owner, filename) ==
  IF auth_and_find_file(owner, filename) # OK
  THEN Fail(auth_and_find_file(owner, filename))
  ELSE IF ~(files[filename].top > 0)
       THEN [err |-> EmptyObject,
             files |-> [files EXCEPT ![filename].published = FALSE],
             nodes |-> nodes]
  ELSE Pass([files EXCEPT ![filename] = delnode_file(@)],
            [nodes EXCEPT ![filename] =
               delnode_nodes(@, files[filename].top - 1)])

\* erase() of the end iterator fails a check of the table library.
delnode_call(owner, filename) ==
  IF auth_and_find_file(owner, filename) # OK
  THEN Fail(auth_and_find_file(owner, filename))
  ELSE IF ~(files[filename].top > 0) THEN Fail(EmptyObject)
  ELSE IF (files[filename].top - 1) \notin DOMAIN nodes[filename]
       THEN Fail(EraseEnd)
  ELSE Pass([files EXCEPT ![filename] = delnode_file(@)],
            [nodes EXCEPT ![filename] =
               delnode_nodes(@, files[filename].top - 1)])

delnode(owner, filename) == Commit("delnode", delnode_call(owner, filename))

\* ----------------------------------------------------------- specification
\* A row of the system contract's namebids table: the high bid is negated
\* when the auction is closed.
Bid(bidder, amount) == [high_bidder |-> bidder, high_bid |-> amount]
BidAmounts == {-10, 10}

\* Bid tables with at most one row, its key among `keys`.
BidTables(keys, bidders) ==
  {[n \in {} |-> NoBid]} \cup
  {[n \in {k} |-> Bid(w, h)] : k \in keys, w \in bidders, h \in BidAmounts}

NoCall == [op |-> "none", err |-> OK]

InitTables(names) ==
  /\ files = [n \in names |-> NoFile]
  /\ nodes = [n \in names |-> EmptyTable]
  /\ last = NoCall

Init == InitTables(FileNames) /\ bids \in BidTables({name_a}, {name_b})

Next ==
  \E owner \in Callers, filename \in FileNames :
    \/ create(owner, filename)
    \/ reset(owner, filename)
    \/ del(owner, filename)
    \/ \E ispub \in BOOLEAN : setpub(owner, filename, ispub)
    \/ setimmutable(owner, filename)
    \/ \E nodeid \in NodeIds, nodedata \in NodeData :
         setnode(owner, filename, nodeid, nodedata)
    \/ delnode(owner, filename)

Spec == Init /\ [][Next]_vars

\* Claiming and releasing names only, over every shape of name.
InitArb ==
  /\ InitTables(ArbNames)
  /\ bids \in BidTables({suffix(f) : f \in ArbNames}, Accounts)

NextArb ==
  \E owner \in Signers, filename \in ArbNames :
    \/ create(owner, filename)
    \/ del(owner, filename)

SpecArb == InitArb /\ [][NextArb]_vars

\* One file that grows until its counter wraps.  nodeid is a uint64_t, so
\* the ids offered go past the largest value of the counter.
WrapNames == {name_full12}
WrapIds == 0..TopLimit

InitWrap == InitTables(WrapNames) /\ bids = [n \in {} |-> NoBid]

NextWrap ==
  \E owner \in Callers, filename \in WrapNames :
    \/ create(owner, filename)
    \/ reset(owner, filename)
    \/ del(owner, filename)
    \/ \E ispub \in BOOLEAN : setpub(owner, filename, ispub)
    \/ setimmutable(owner, filename)
    \/ \E nodeid \in WrapIds, nodedata \in NodeData :
         setnode_any(owner, filename, nodeid, nodedata)
    \/ delnode(owner, filename)

SpecWrap == InitWrap /\ [][NextWrap]_vars

TypeOK ==
  /\ \A f \in DOMAIN files :
       files[f] = NoFile \/
       (files[f].owner \in Signers /\ files[f].top \in 0..MaxTop
        /\ files[f].published \in BOOLEAN)
  /\ last.err \in {OK, MissingAuth, AlreadyExists, NotFound, NotOwner,
                    NotPublished, EmptyChunk, IndexPastTop, EmptyObject}
                   \cup NamespaceNotAuthorized

\* ------------------------------------------------------------------ claims
Exists(f) == files[f] # NoFile
Frozen(f) == Exists(f) /\ files[f].owner = EmptyName

\* The outcomes, in the current state, of the owner-gated calls other than
\* setnode that `o` can make on file `f`.
GatedOutcomes(o, f) ==
  {reset_call(o, f), del_call(o, f), setimmutable_call(o, f), delnode_call(o, f)}
  \cup {setpub_call(o, f, ispub) : ispub \in BOOLEAN}

\* The outcomes of the setnode calls of `o` on `f` with data `d`.
WriteOutcomes(o, f, d) == {setnode_call(o, f, nodeid, d) : nodeid \in NodeIds}

\* Outcome `r` leaves the record and the nodes of `f` as they are.
Untouched(r, f) == r.files[f] = files[f] /\ r.nodes[f] = nodes[f]

\* C1. Contiguity: in every reachable state, for every name that has a file
\* record the ids stored in its node table are exactly 0 .. top-1.
C1_Contiguity ==
  \A f \in DOMAIN files :
    Exists(f) => DOMAIN nodes[f] = 0..(files[f].top - 1)

\* A file filled by setnode up to two nodes while the other file holds one.
C1_Witness ==
  /\ last = [op |-> "setnode", err |-> OK]
  /\ \E f, g \in DOMAIN files :
       /\ f # g /\ Exists(f) /\ Exists(g)
       /\ files[f].top = 2 /\ DOMAIN nodes[f] = {0, 1}
       /\ files[g].top = 1 /\ DOMAIN nodes[g] = {0}

\* C2. Freeze terminality: once a file's owner is the empty name (setimmutable
\* succeeded), no step changes its file record or its nodes; in particular
\* the record is never erased.
C2_FreezeTerminal ==
  [][\A f \in DOMAIN files :
       Frozen(f) => (files'[f] = files[f] /\ nodes'[f] = nodes[f])]_vars

\* A frozen file with two nodes is the only file, and a del was refused.
C2_Witness ==
  /\ last = [op |-> "del", err |-> NotOwner]
  /\ \E f \in DOMAIN files :
       /\ Frozen(f) /\ files[f].top = 2 /\ files[f].published
       /\ \A g \in DOMAIN files \ {f} : ~Exists(g)

\* A visible delimiter: one of the symbols before the trailing padding is '.'.
HasVisibleDelimiter(n) == \E i \in 1..length(n) : n[i] = 0
Delimited == {n \in AllNames : HasVisibleDelimiter(n)}

\* C3. A name without a visible delimiter (a short name such as "ab") that
\* has no file is created by every signing account, whatever the bid table
\* holds, and the new record is {owner, top = 0, published = false}.
C3_UndelimitedFree ==
  [][last'.op = "create" =>
       \A o \in Accounts, f \in ArbNames \ Delimited :
         (~Exists(f) /\ create(o, f)) =>
           /\ last'.err = OK
           /\ files'[f] = [owner |-> o, top |-> 0, published |-> FALSE]]_vars

\* C4. A name with a visible delimiter that has no file is created exactly
\* when the suffix has no bid row and the caller is the suffix, or the row's
\* high bid is negative and the caller is its high bidder; every refusal
\* is one of the three name-authorization messages, so a row whose bid is
\* not negative refuses every caller.
C4_DelimitedNames ==
  [][last'.op = "create" =>
       \A o \in Accounts, f \in ArbNames \cap Delimited :
         (~Exists(f) /\ create(o, f)) =>
           LET current == find(bids, Suffix[f])
           IN /\ (last'.err = OK) <=>
                   \/ current = NoBid /\ o = Suffix[f]
                   \/ current # NoBid /\ current.high_bid < 0
                                      /\ o = current.high_bidder
              /\ last'.err # OK => last'.err \in NamespaceNotAuthorized
              /\ last'.err = OK =>
                   files'[f] = [owner |-> o, top |-> 0, published |-> FALSE]]_vars

\* The only file has a delimited name and belongs to the winner of the closed
\* auction of its suffix, who is not the suffix.
C4_Witness ==
  /\ last = [op |-> "create", err |-> OK]
  /\ \E f \in ArbNames \cap Delimited :
       /\ Exists(f) /\ \A g \in DOMAIN files \ {f} : ~Exists(g)
       /\ find(bids, Suffix[f]) # NoBid
       /\ find(bids, Suffix[f]).high_bid < 0
       /\ files[f].owner = find(bids, Suffix[f]).high_bidder
       /\ files[f].owner # Suffix[f]

\* C5 as stated. Every successful owner-gated call is made by the owner the
\* record holds before the call, and a call by another account on an existing
\* record fails with "Not file owner." and changes nothing.
C5_OwnerGating ==
  \A o \in Callers, f \in FileNames :
    \A r \in GatedOutcomes(o, f) \cup UNION {WriteOutcomes(o, f, d) : d \in NodeData} :
      /\ r.err = OK => (Exists(f) /\ files[f].owner = o)
      /\ (Exists(f) /\ files[f].owner # o) => (r.err = NotOwner /\ Untouched(r, f))

\* C5 amended. As C5, but a setnode with empty data by another account fails
\* with "Empty nodedata.", the check that precedes the owner check.
C5_OwnerGatingAmended ==
  \A o \in Callers, f \in FileNames :
    /\ \A r \in GatedOutcomes(o, f) :
         /\ r.err = OK => (Exists(f) /\ files[f].owner = o)
         /\ (Exists(f) /\ files[f].owner # o) =>
              (r.err = NotOwner /\ Untouched(r, f))
    /\ \A d \in NodeData : \A r \in WriteOutcomes(o, f, d) :
         /\ r.err = OK => (Exists(f) /\ files[f].owner = o)
         /\ (Exists(f) /\ files[f].owner # o) =>
              /\ r.err = (IF d = <<>> THEN EmptyChunk ELSE NotOwner)
              /\ Untouched(r, f)

\* Both files exist with different owners, each holding a node, and a setnode
\* with data was refused for want of ownership.
C5_Witness ==
  /\ last = [op |-> "setnode", err |-> NotOwner]
  /\ \E f, g \in FileNames :
       /\ Exists(f) /\ Exists(g) /\ files[f].owner = name_a
       /\ files[g].owner = name_b /\ files[f].top = 1 /\ files[g].top = 1

\* C6. After a successful setnode or delnode the file is not published,
\* whatever the flag was and whether the setnode appended or overwrote.
C6_WriteClearsPublished ==
  \A o \in Callers, f \in FileNames :
    \A r \in {delnode_call(o, f)} \cup UNION {WriteOutcomes(o, f, d) : d \in NodeData} :
      r.err = OK => ~r.files[f].published

\* A setnode succeeded on the only file, which has two nodes and is not
\* published.
C6_Witness ==
  /\ last = [op |-> "setnode", err |-> OK]
  /\ \E f \in FileNames :
       /\ Exists(f) /\ files[f].top = 2 /\ ~files[f].published
       /\ \A g \in FileNames \ {f} : ~Exists(g)

\* C7. Failure atomicity: a call that fails leaves every file record and
\* every node of every name as it was.
C7_FailureAtomicity ==
  [][last'.err # OK => (files' = files /\ nodes' = nodes)]_vars

\* A delnode on a published file without nodes was refused.
C7_Witness ==
  /\ last = [op |-> "delnode", err |-> EmptyObject]
  /\ \E f \in FileNames :
       /\ Exists(f) /\ files[f].top = 0 /\ files[f].published
       /\ \A g \in FileNames \ {f} : ~Exists(g)

\* C8 as stated. Every owner-gated call and every create on a frozen file
\* fails with "Not file owner.", for every caller.
C8_FrozenNotOwner ==
  \A o \in Callers, f \in FileNames :
    Frozen(f) =>
      \A r \in GatedOutcomes(o, f) \cup {create_call(o, f)}
               \cup UNION {WriteOutcomes(o, f, d) : d \in NodeData} :
        r.err = NotOwner

\* C8 amended. On a frozen file every owner-gated call fails for every
\* caller: with "Not file owner.", except a setnode with empty data, which
\* fails with "Empty nodedata."; a create on it fails with "File exists.".
C8_FrozenRefusesAll ==
  \A o \in Callers, f \in FileNames :
    Frozen(f) =>
      /\ \A r \in GatedOutcomes(o, f) : r.err = NotOwner
      /\ \A d \in NodeData : \A r \in WriteOutcomes(o, f, d) :
           r.err = (IF d = <<>> THEN EmptyChunk ELSE NotOwner)
      /\ create_call(o, f).err = AlreadyExists

\* Every file is frozen, one has a node, and a create was refused because the
\* file exists.
C8_Witness ==
  /\ last = [op |-> "create", err |-> AlreadyExists]
  /\ \A f \in FileNames : Frozen(f)
  /\ \E f \in FileNames : files[f].top = 1

\* C9. Top-only mutation: a successful delnode erases exactly node top-1,
\* decrements top and keeps every other node; by the owner on a file without
\* nodes it fails with "Empty file.".  A successful setnode changes top only
\* when nodeid = top; by the owner, with data and nodeid > top, it fails with
\* "Past top.".
C9_TopOnly ==
  \A o \in Callers, f \in FileNames :
    /\ LET r == delnode_call(o, f)
       IN /\ r.err = OK =>
               /\ r.files[f].top = files[f].top - 1
               /\ DOMAIN r.nodes[f] = DOMAIN nodes[f] \ {files[f].top - 1}
               /\ \A id \in DOMAIN r.nodes[f] : r.nodes[f][id] = nodes[f][id]
          /\ (Exists(f) /\ files[f].owner = o) =>
               (r.err = EmptyObject <=> files[f].top = 0)
    /\ \A nodeid \in NodeIds, d \in NodeData :
         LET r == setnode_call(o, f, nodeid, d)
         IN /\ (r.err = OK /\ r.files[f].top # files[f].top) =>
                 nodeid = files[f].top
            /\ (Exists(f) /\ files[f].owner = o /\ d # <<>>
                /\ nodeid > files[f].top) => r.err = IndexPastTop

\* A delnode succeeded on the only file and left one node below the old top.
C9_Witness ==
  /\ last = [op |-> "delnode", err |-> OK]
  /\ \E f \in FileNames :
       /\ Exists(f) /\ files[f].top = 1 /\ DOMAIN nodes[f] = {0}
       /\ \A g \in FileNames \ {f} : ~Exists(g)

\* C10. First-come guard: a create on a name that has a file fails with
\* "File exists." for every caller and changes nothing, and a file record
\* disappears only by a successful del.
C10_FirstCome ==
  [][\A f \in FileNames :
       /\ \A o \in Callers :
            (last'.op = "create" /\ create(o, f)) =>
              /\ Exists(f) =>
                   /\ last'.err = AlreadyExists
                   /\ files'[f] = files[f] /\ nodes'[f] = nodes[f]
              /\ last'.err = OK => ~Exists(f)
       /\ (Exists(f) /\ files'[f] = NoFile) =>
            last' = [op |-> "del", err |-> OK]]_vars

\* A create was refused on the only file, which is published with a node and
\* owned by an account the name check admits.
C10_Witness ==
  /\ last = [op |-> "create", err |-> AlreadyExists]
  /\ \E f \in FileNames :
       /\ Exists(f) /\ files[f].published /\ files[f].top = 1
       /\ files[f].owner \in Accounts
       /\ name_check(files[f].owner, f) = OK
       /\ \A g \in FileNames \ {f} : ~Exists(g)

\* C11. setimmutable by the owner succeeds exactly when the file is
\* published; on an unpublished file it fails with "File not published." and
\* changes nothing; when it succeeds it sets the owner to the empty name and
\* leaves top, published, every node and every other file as they were.
C11_FreezeIffPublished ==
  \A o \in Callers, f \in FileNames :
    (Exists(f) /\ files[f].owner = o) =>
      LET r == setimmutable_call(o, f)
      IN /\ r.err = OK <=> files[f].published
         /\ ~files[f].published =>
              (r.err = NotPublished /\ r.files = files /\ r.nodes = nodes)
         /\ r.err = OK =>
              /\ r.files = [files EXCEPT ![f].owner = EmptyName]
              /\ r.files[f].top = files[f].top
              /\ r.files[f].published = files[f].published
              /\ r.nodes = nodes

\* A setimmutable succeeded on a file with a node while the other file, not
\* published, still has its owner.
C11_Witness ==
  /\ last = [op |-> "setimmutable", err |-> OK]
  /\ \E f, g \in FileNames :
       /\ Frozen(f) /\ files[f].top = 1 /\ DOMAIN nodes[f] = {0}
       /\ Exists(g) /\ ~Frozen(g) /\ ~files[g].published

\* C12. In every reachable state a file whose owner is the empty name is
\* published.
C12_FrozenPublished ==
  \A f \in DOMAIN files : Frozen(f) => files[f].published

\* Both files are frozen, and the last call, a setpub, was refused.
C12_Witness ==
  /\ last = [op |-> "setpub", err |-> NotOwner]
  /\ \A f \in FileNames : Frozen(f) /\ files[f].published

\* C13 as stated. Every call other than create on a name without a file
\* fails with "File does not exist.", for every caller, node id and data.
C13_MissingNotFound ==
  \A o \in Callers, f \in FileNames :
    ~Exists(f) =>
      \A r \in GatedOutcomes(o, f)
               \cup UNION {WriteOutcomes(o, f, d) : d \in NodeData} :
        r.err = NotFound

\* C13 amended. On a name without a file every call other than create fails
\* and changes nothing: with "File does not exist.", except a setnode with
\* empty data, which fails with "Empty nodedata." for every node id.
C13_MissingRefused ==
  \A o \in Callers, f \in FileNames :
    ~Exists(f) =>
      /\ \A r \in GatedOutcomes(o, f) :
           r.err = NotFound /\ r.files = files /\ r.nodes = nodes
      /\ \A d \in NodeData : \A r \in WriteOutcomes(o, f, d) :
           /\ r.err = (IF d = <<>> THEN EmptyChunk ELSE NotFound)
           /\ r.files = files /\ r.nodes = nodes

\* No file exists, and a setnode with empty data was refused for its data.
C13_Witness ==
  /\ last = [op |-> "setnode", err |-> EmptyChunk]
  /\ \A f \in FileNames : ~Exists(f)

\* C14. No orphan nodes: a successful reset leaves the file with top = 0,
\* not published, the same owner and no nodes; a successful del leaves the
\* name without a file and without nodes; in every reachable state a name
\* without a file has no nodes, so a file created on it starts empty.
C14_Cascade ==
  \A f \in FileNames :
    /\ ~Exists(f) => nodes[f] = EmptyTable
    /\ \A o \in Callers :
         /\ LET r == reset_call(o, f)
            IN r.err = OK =>
                 /\ r.files[f] = [owner |-> files[f].owner, top |-> 0,
                                  published |-> FALSE]
                 /\ r.nodes[f] = EmptyTable
         /\ LET r == del_call(o, f)
            IN r.err = OK => (r.files[f] = NoFile /\ r.nodes[f] = EmptyTable)
         /\ LET r == create_call(o, f)
            IN r.err = OK => (r.files[f].top = 0 /\ r.nodes[f] = EmptyTable)

\* A del succeeded: its name has neither file nor nodes, while the other
\* file keeps its two nodes.
C14_Witness ==
  /\ last = [op |-> "del", err |-> OK]
  /\ \E f, g \in FileNames :
       /\ ~Exists(f) /\ nodes[f] = EmptyTable
       /\ Exists(g) /\ DOMAIN nodes[g] = {0, 1}

\* C15. Cross-name independence: whatever call is made on a name, and
\* whether it succeeds or fails, the file record and the nodes of every
\* other name stay as they were.
C15_OtherNamesUntouched ==
  \A o \in Callers, f \in FileNames :
    \A r \in GatedOutcomes(o, f) \cup {create_call(o, f)}
             \cup UNION {WriteOutcomes(o, f, d) : d \in NodeData} :
      \A g \in FileNames \ {f} : Untouched(r, g)

\* A reset succeeded on one file while the other, published, keeps its two
\* nodes.
C15_Witness ==
  /\ last = [op |-> "reset", err |-> OK]
  /\ \E f, g \in FileNames :
       /\ Exists(f) /\ files[f].top = 0 /\ nodes[f] = EmptyTable
       /\ Exists(g) /\ files[g].published /\ DOMAIN nodes[g] = {0, 1}

\* C16. A successful setpub sets published to the flag and changes nothing
\* else: owner, top, every node and every other file stay as they were.  By
\* the owner it succeeds for either flag in every state of the file, also
\* when the file has no nodes, so the flag can be set and cleared at will.
C16_SetpubOnlyFlag ==
  \A o \in Callers, f \in FileNames, ispub \in BOOLEAN :
    LET r == setpub_call(o, f, ispub)
    IN /\ r.err = OK =>
            /\ r.files = [files EXCEPT ![f].published = ispub]
            /\ r.files[f].owner = files[f].owner
            /\ r.files[f].top = files[f].top
            /\ r.nodes = nodes
       /\ (Exists(f) /\ files[f].owner = o) => r.err = OK

\* A setpub succeeded; one file without nodes is published and the other,
\* with a node, is not.
C16_Witness ==
  /\ last = [op |-> "setpub", err |-> OK]
  /\ \E f, g \in FileNames :
       /\ Exists(f) /\ files[f].top = 0 /\ files[f].published
       /\ Exists(g) /\ files[g].top = 1 /\ ~files[g].published

\* C17. In every create that reaches the name check (the caller signed and
\* the name has no file), the flag visible_dot that the loop computes is
\* true exactly when one of the first length(filename) symbols of the name
\* is '.'; so it is false for a short name without a dot and for a
\* 13-symbol name without a dot.
C17_VisibleDotReference ==
  [][last'.op = "create" =>
       \A o \in Signers, f \in ArbNames :
         (has_auth(o) /\ ~Exists(f) /\ create(o, f)) =>
           (VisibleDot[f] <=> HasVisibleDelimiter(f))]_vars

\* C18. Overwrite frame: a successful setnode with nodeid < top replaces the
\* data of node nodeid, clears published and leaves top, owner and every
\* other node as they were; with nodeid = top it adds node nodeid, which was
\* not there, and leaves every existing node as it was.  By the owner, with
\* data and nodeid <= top, the call succeeds.
C18_OverwriteFrame ==
  \A o \in Callers, f \in DOMAIN files, nodeid \in NodeIds, d \in NodeData :
    LET r == setnode_call(o, f, nodeid, d)
    IN /\ (Exists(f) /\ files[f].owner = o /\ d # <<>>
            /\ nodeid <= files[f].top) => r.err = OK
       /\ r.err = OK =>
            /\ r.nodes[f][nodeid] = d
            /\ ~r.files[f].published
            /\ r.files[f].owner = files[f].owner
            /\ nodeid < files[f].top =>
                 /\ r.files[f].top = files[f].top
                 /\ DOMAIN r.nodes[f] = DOMAIN nodes[f]
                 /\ \A id \in DOMAIN nodes[f] \ {nodeid} :
                      r.nodes[f][id] = nodes[f][id]
            /\ nodeid = files[f].top =>
                 /\ nodeid \notin DOMAIN nodes[f]
                 /\ DOMAIN r.nodes[f] = DOMAIN nodes[f] \cup {nodeid}
                 /\ \A id \in DOMAIN nodes[f] : r.nodes[f][id] = nodes[f][id]

\* A setnode succeeded on a file that holds two nodes with different data
\* and is not published, while the other file is published.
C18_Witness ==
  /\ last = [op |-> "setnode", err |-> OK]
  /\ \E f, g \in FileNames :
       /\ Exists(f) /\ files[f].top = 2 /\ ~files[f].published
       /\ nodes[f][0] = <<2>> /\ nodes[f][1] = <<1>>
       /\ Exists(g) /\ files[g].published

\* The step changes the content of `f`: a node, the set of nodes, or top.
ContentChanged(f) ==
  \/ nodes'[f] # nodes[f]
  \/ /\ Exists(f) /\ files'[f] # NoFile
     /\ files'[f].top # files[f].top

\* C19. Published means stable checkpoint: every step that changes top or a
\* node of a file ends with the file not published or erased, a new file
\* starts not published, and published becomes true only by a successful
\* setpub; so while a file stays published, frozen or not, its content is
\* the content at that setpub.
C19_PublishedStable ==
  [][\A f \in FileNames :
       /\ ContentChanged(f) => (files'[f] = NoFile \/ ~files'[f].published)
       /\ (files'[f] # NoFile /\ files'[f].published) =>
            \/ Exists(f) /\ files[f].published
            \/ Exists(f) /\ last' = [op |-> "setpub", err |-> OK]]_vars

\* A setnode succeeded on a file that now has a node and is not published,
\* beside a frozen file that keeps its two nodes.
C19_Witness ==
  /\ last = [op |-> "setnode", err |-> OK]
  /\ \E f, g \in FileNames :
       /\ Exists(f) /\ ~Frozen(f) /\ files[f].top = 1 /\ ~files[f].published
       /\ Frozen(g) /\ files[g].published /\ DOMAIN nodes[g] = {0, 1}

\* C20. A successful setnode never decreases top: with nodeid = top the new
\* top is the old one plus one, whatever value the counter holds, and no
\* node is left at an id at or above top.
C20_TopNeverWraps ==
  [][last' = [op |-> "setnode", err |-> OK] =>
       \A f \in DOMAIN files :
         (Exists(f) /\ files'[f] # NoFile) =>
           /\ files'[f].top >= files[f].top
           /\ files'[f].top # files[f].top =>
                files'[f].top = files[f].top + 1
           /\ \A id \in DOMAIN nodes'[f] : id < files'[f].top]_vars

====
